---- MODULE Spec2Model ----
(***************************************************************************)
(* Model of the WebSocket session handler of the teleprompter backend      *)
(* (backend/main.py, websocket_endpoint) together with the model cache it  *)
(* uses (get_model).  One session is modelled: each action is the complete *)
(* handling of one received frame, from `await websocket.receive()` to the *)
(* next iteration of the loop (or to the end of the coroutine).            *)
(*                                                                         *)
(* The recognition engine (vosk) is external: every engine call returns a  *)
(* nondeterministically chosen value or raises.  Strings produced by the   *)
(* engine are sequences of one-character strings over Alphabet.            *)
(* A send on a connection the client has not closed succeeds.              *)
(***************************************************************************)
EXTENDS Integers, Sequences, FiniteSets, TLC

\* ------------------------------------------------------------------ bounds
\* Frames handled by one session.
MaxMsgs == 3
\* Length of a text returned by the engine.
MaxTextLen == 3

\* Calls of save_script and load_script in one run.
MaxStoreOps == 3
\* Requests GET and POST /api/scripts handled in one run.
MaxApiOps == 2
\* Instants the clock moves through.
MaxClock == 2
\* Concurrent POST /api/scripts requests.
MaxPosts == 2

\* Prefix tokens and dash-separated tokens of a model directory name.
MaxPrefixes == 2
MaxTokens == 3
\* Slides of an uploaded presentation.
MaxSlides == 3
\* Connections open at once, and the frames their clients send in all.
MaxSessions == 2
MaxFrames == 3

\* ------------------------------------------------------- program constants
SAMPLE_RATE == 16000
CODE_LENGTH == 5

\* ------------------------------------------------------------------- text
\* Characters of engine output: an upper-case letter and a blank.
Alphabet == {"A", " "}

RawTexts == UNION {[1..n -> Alphabet] : n \in 0..MaxTextLen}

IsSpace(c) == c = " "

\* str.strip(): drop leading and trailing whitespace.
RECURSIVE LStrip(_)
LStrip(s) ==
    IF s = <<>> THEN <<>>
    ELSE IF IsSpace(Head(s)) THEN LStrip(Tail(s))
    ELSE s

RECURSIVE RStrip(_)
RStrip(s) ==
    IF s = <<>> THEN <<>>
    ELSE IF IsSpace(s[Len(s)]) THEN RStrip(SubSeq(s, 1, Len(s) - 1))
    ELSE s

Strip(s) == RStrip(LStrip(s))

\* str.lower()
LowerChar(c) ==
    CASE c = "A" -> "a"
      [] c = "P" -> "p"
      [] c = "T" -> "t"
      [] c = "X" -> "x"
      [] OTHER -> c

Lower(s) == [i \in 1..Len(s) |-> LowerChar(s[i])]

\* str.split() with no separator: the maximal runs of non-whitespace.
RECURSIVE SplitFrom(_, _, _)
SplitFrom(s, cur, acc) ==
    IF s = <<>> THEN (IF cur = <<>> THEN acc ELSE Append(acc, cur))
    ELSE IF IsSpace(Head(s))
         THEN SplitFrom(Tail(s), <<>>, IF cur = <<>> THEN acc ELSE Append(acc, cur))
         ELSE SplitFrom(Tail(s), Append(cur, Head(s)), acc)

Split(s) == SplitFrom(s, <<>>, <<>>)

\* ------------------------------------------------------------------ state
VARIABLES
    recognizer,              \* the session's recognizer, NoRecognizer for None
    audio_chunks_received,   \* chunks fed since the last successful start
    loaded_models,           \* paths with an entry in the process-wide cache
    pc,                      \* "receive": in the loop; "closed": coroutine ended
    nextId,                  \* recognizers created by the engine so far
    hist,                    \* frames handled so far, in order, each with
                             \* whether an engine call raised in handling it
    log,                     \* events sent to the client so far, in order
    mark,                    \* Len(log) before the last frame was handled
    calls,                   \* engine calls made while handling the last frame
    pre                      \* session state before the last frame was handled

\* The script store, the model registry and the import adapter.
VARIABLES
    scripts,                 \* SCRIPTS_DIR: code -> content of <code>.json
    now,                     \* the instant datetime.utcnow() returns
    saved,                   \* per code: instant of its first save_script and
                             \* the data of its latest one
    store_last,              \* the last store operation and what it returned
    posts,                   \* per POST /api/scripts request: where it is
    running,                 \* the coroutine holding the event loop, 0 if none
    model_dir,               \* a directory of MODELS_DIR
    models,                  \* what get_available_models returned for it
    upload,                  \* the file of a POST /api/import/pptx
    import_response,         \* the response to it
    sessions,                \* per connection: the coroutine's locals and place
    inbox,                   \* per connection: the frames its client has sent
    trace,                   \* per connection: reads, engine calls and sends
    loading,                 \* <<connection, path>> of the Model() calls begun
    model_calls              \* per path: who called Model() and how it ended

sessionVars == <<recognizer, audio_chunks_received, loaded_models, pc, nextId,
                 hist, log, mark, calls, pre>>
storeVars == <<scripts, now, saved, store_last, posts, running>>
registryVars == <<model_dir, models>>
importVars == <<upload, import_response>>

concVars == <<sessions, inbox, trace, loading, model_calls>>

vars == <<sessionVars, storeVars, registryVars, importVars, concVars>>

\* The parts of the program a specification does not exercise stay as they
\* are at process start.
NoFiles == <<>>
NoOp == [op |-> "none"]
StoreIdle ==
    /\ scripts = NoFiles
    /\ now = 0
    /\ saved = NoFiles
    /\ store_last = NoOp
    /\ posts = <<>>
    /\ running = 0
RegistryIdle == model_dir = NoOp /\ models = NoOp
ImportIdle == upload = NoOp /\ import_response = NoOp
ConcIdle ==
    /\ sessions = <<>>
    /\ inbox = <<>>
    /\ trace = <<>>
    /\ loading = {}
    /\ model_calls = <<>>

\* recognizer = None
NoRecognizer == [id |-> 0, model |-> "", rate |-> 0, words |-> FALSE]

\* KaldiRecognizer(model, SAMPLE_RATE): a new engine object.
NewRecognizer(id, model_path) ==
    [id |-> id, model |-> model_path, rate |-> SAMPLE_RATE, words |-> FALSE]

\* recognizer.SetWords(True)
SetWords(rec) == [rec EXCEPT !.words = TRUE]

\* ----------------------------------------------------------------- frames
\* Paths for which Path(model_path).exists() is true.
ExistingPaths == {"m1", "m2"}

\* Values of the "model" field of a start message: the key is absent (None),
\* "" (falsy), a truthy JSON value that is not a string, a path that does
\* not exist, and the existing paths.
ModelValues == {"None", "empty", "nonstring", "nx"} \cup ExistingPaths

\* Values of data.get("type") other than start/stop/ping.
UnknownTypes == {"other", "None"}

\* Texts of a text frame that make json.loads or data.get raise.
MalformedTexts == {"invalid_json", "non_object"}

Frame(frame, type, model) == [frame |-> frame, type |-> type, model |-> model]

\* ----------------------------------------------------------------- events
ReadyEvent == [type |-> "ready"]
StoppedEvent == [type |-> "stopped"]
PongEvent == [type |-> "pong"]
ErrorEvent(message) == [type |-> "error", message |-> message]

\* text.lower().split()
WordsOf(text) == Split(Lower(text))

TranscriptEvent(type, text) ==
    [type |-> type, text |-> text, words |-> WordsOf(text)]

\* `if text:`
NonEmpty_Always(text) == TRUE
NonEmpty(text) == text # <<>>

\* ----------------------------------------------------------- engine calls
\* One engine call: the operation, the recognizer it was made on, how it
\* returned ("ok", "True", "False", or "raise") and the text it returned.
Call(op, rec, ret, text) == [op |-> op, rec |-> rec, ret |-> ret, text |-> text]

\* Outcomes of the engine calls of one start: every call returns, or one of
\* Model(), KaldiRecognizer(), SetWords() raises.
StartOutcomes == {"ok", "Model", "KaldiRecognizer", "SetWords"}

\* Outcomes of the engine calls of one audio chunk: AcceptWaveform raises, or
\* returns a truth value after which Result()/PartialResult() raises or
\* returns a text.
FeedOutcomes ==
    {[accept |-> "raise", res |-> "none", text |-> <<>>]}
    \cup [accept : {"True", "False"}, res : {"raise"}, text : {<<>>}]
    \cup [accept : {"True", "False"}, res : {"ok"}, text : RawTexts]

\* Outcomes of FinalResult().
FinalOutcomes ==
    [res : {"raise"}, text : {<<>>}] \cup [res : {"ok"}, text : RawTexts]

\* ---------------------------------------------------------------- results
\* What handling one frame leaves behind: the session's variables, the events
\* sent, the engine calls made and whether the loop goes on.
Outcome(rec, chunks, loaded, ids, sent, made, alive) ==
    [recognizer |-> rec, audio_chunks_received |-> chunks,
     loaded_models |-> loaded, nextId |-> ids,
     sent |-> sent, calls |-> made, alive |-> alive]

\* The session's variables as a record.
Session ==
    [recognizer |-> recognizer, audio_chunks_received |-> audio_chunks_received,
     loaded_models |-> loaded_models, nextId |-> nextId]

\* Nothing raised: the loop reads the next frame.
Continue(st, sent, made) ==
    Outcome(st.recognizer, st.audio_chunks_received, st.loaded_models, st.nextId,
           sent, made, TRUE)

\* An exception left the loop: `except Exception` sends one error event and
\* the coroutine ends.
Crash(st, sent, made) ==
    Outcome(st.recognizer, st.audio_chunks_received, st.loaded_models, st.nextId,
           sent \o <<ErrorEvent("str(e)")>>, made, FALSE)

\* --------------------------------------------------------------- get_model
\* get_model(model_path): the cached entry, or Model(model_path) stored in
\* the cache; when Model() raises nothing is stored and the exception is
\* re-raised.
get_model_StoreOnRaise(loaded, model_path, raises) ==
    IF model_path \notin loaded
    THEN [loaded |-> loaded \cup {model_path}, raised |-> raises,
          calls |-> <<Call("Model", NoRecognizer,
                           IF raises THEN "raise" ELSE "ok", <<>>)>>]
    ELSE [loaded |-> loaded, raised |-> FALSE, calls |-> <<>>]
get_model(loaded, model_path, raises) ==
    IF model_path \notin loaded
    THEN IF raises
         THEN [loaded |-> loaded, raised |-> TRUE,
               calls |-> <<Call("Model", NoRecognizer, "raise", <<>>)>>]
         ELSE [loaded |-> loaded \cup {model_path}, raised |-> FALSE,
               calls |-> <<Call("Model", NoRecognizer, "ok", <<>>)>>]
    ELSE [loaded |-> loaded, raised |-> FALSE, calls |-> <<>>]

\* ------------------------------------------------------------------ start
\* `not model_path`
Falsy(model_path) == model_path \in {"None", "empty"}

\* Path(model_path).exists()
PathExists_Any(model_path) == TRUE
PathExists(model_path) == model_path \in ExistingPaths

\* `audio_chunks_received = 0`
StartedChunks_Kept(chunks) == chunks
StartedChunks(chunks) == 0

\* The try block of start: get_model, KaldiRecognizer, SetWords, the counter
\* reset and the ready event; `except Exception` sends an error event and the
\* loop goes on with whatever had been assigned.
TryStart(st, model_path, eng) ==
    LET g == get_model(st.loaded_models, model_path, eng = "Model")
        created == NewRecognizer(st.nextId + 1, model_path)
        error == <<ErrorEvent("str(e)")>>
    IN  IF g.raised
        THEN Outcome(st.recognizer, st.audio_chunks_received, g.loaded,
                     st.nextId, error, g.calls, TRUE)
        ELSE IF eng = "KaldiRecognizer"
        THEN Outcome(st.recognizer, st.audio_chunks_received, g.loaded,
                     st.nextId, error,
                     g.calls \o <<Call("KaldiRecognizer", NoRecognizer, "raise", <<>>)>>,
                     TRUE)
        ELSE IF eng = "SetWords"
        THEN Outcome(created, st.audio_chunks_received, g.loaded,
                     st.nextId + 1, error,
                     g.calls \o <<Call("KaldiRecognizer", NoRecognizer, "ok", <<>>),
                                  Call("SetWords", created, "raise", <<>>)>>,
                     TRUE)
        ELSE Outcome(SetWords(created), StartedChunks(st.audio_chunks_received),
                     g.loaded, st.nextId + 1, <<ReadyEvent>>,
                     g.calls \o <<Call("KaldiRecognizer", NoRecognizer, "ok", <<>>),
                                  Call("SetWords", created, "ok", <<>>)>>,
                     TRUE)

\* msg_type == "start"
HandleStart(st, model_path, eng) ==
    IF Falsy(model_path)
    THEN Continue(st, <<ErrorEvent("Invalid model path")>>, <<>>)
    ELSE IF model_path = "nonstring"
    THEN Crash(st, <<>>, <<>>)                \* Path() raises TypeError
    ELSE IF ~PathExists(model_path)
    THEN Continue(st, <<ErrorEvent("Invalid model path")>>, <<>>)
    ELSE TryStart(st, model_path, eng)

\* ------------------------------------------------------------------- stop
\* `if recognizer:`
RecognizerAttached(rec) == rec # NoRecognizer

\* msg_type == "stop"
HandleStop(st, eng) ==
    IF RecognizerAttached(st.recognizer)
    THEN IF eng.res = "raise"
         THEN Crash(st, <<>>, <<Call("FinalResult", st.recognizer, "raise", <<>>)>>)
         ELSE LET text == Strip(eng.text)
              IN  Outcome(NoRecognizer, st.audio_chunks_received,
                          st.loaded_models, st.nextId,
                          (IF NonEmpty(text)
                           THEN <<TranscriptEvent("final", text)>>
                           ELSE <<>>) \o <<StoppedEvent>>,
                          <<Call("FinalResult", st.recognizer, "ok", eng.text)>>, TRUE)
    ELSE Outcome(NoRecognizer, st.audio_chunks_received, st.loaded_models,
                 st.nextId, <<StoppedEvent>>, <<>>, TRUE)

\* ------------------------------------------------------------------- ping
\* msg_type == "ping"
HandlePing_Detach(st) ==
    Outcome(NoRecognizer, st.audio_chunks_received, st.loaded_models,
            st.nextId, <<PongEvent>>, <<>>, TRUE)
HandlePing(st) == Continue(st, <<PongEvent>>, <<>>)

\* A msg_type that matches no branch of the if/elif chain.
HandleUnknown(st) == Continue(st, <<>>, <<>>)

\* json.loads(message["text"]) or data.get("type") raises.
HandleMalformed(st) == Crash(st, <<>>, <<>>)

\* ------------------------------------------------------------------ audio
\* `if recognizer is None:`
RecognizerIsNone_Never(rec) == FALSE
RecognizerIsNone(rec) == rec = NoRecognizer

\* "bytes" in message
HandleBytes(st, eng) ==
    IF RecognizerIsNone(st.recognizer)
    THEN Continue(st, <<>>, <<>>)
    ELSE
    LET rec == st.recognizer
        counted == [st EXCEPT !.audio_chunks_received = @ + 1]
        op == IF eng.accept = "True" THEN "Result" ELSE "PartialResult"
        type == IF eng.accept = "True" THEN "final" ELSE "partial"
        text == Strip(eng.text)
    IN  IF eng.accept = "raise"
        THEN Crash(counted, <<>>, <<Call("AcceptWaveform", rec, "raise", <<>>)>>)
        ELSE IF eng.res = "raise"
        THEN Crash(counted, <<>>,
                   <<Call("AcceptWaveform", rec, eng.accept, <<>>),
                     Call(op, rec, "raise", <<>>)>>)
        ELSE Continue(counted,
                      IF NonEmpty(text)
                      THEN <<TranscriptEvent(type, text)>>
                      ELSE <<>>,
                      <<Call("AcceptWaveform", rec, eng.accept, <<>>),
                        Call(op, rec, "ok", eng.text)>>)

\* ------------------------------------------------------------- disconnect
\* The client closed the connection: receive() ends the loop; the error send
\* of `except Exception`, if attempted, fails and is swallowed.
HandleDisconnect_Flush(st) ==
    Outcome(NoRecognizer, st.audio_chunks_received, st.loaded_models, st.nextId,
            <<StoppedEvent>>,
            IF st.recognizer # NoRecognizer
            THEN <<Call("FinalResult", st.recognizer, "ok", <<>>)>> ELSE <<>>,
            FALSE)
HandleDisconnect(st) ==
    Outcome(st.recognizer, st.audio_chunks_received, st.loaded_models, st.nextId,
            <<>>, <<>>, FALSE)

\* ---------------------------------------------------------------- actions
\* One iteration of `while True`: the frame is handled to the end.
Commit(frame, r) ==
    /\ recognizer' = r.recognizer
    /\ audio_chunks_received' = r.audio_chunks_received
    /\ loaded_models' = r.loaded_models
    /\ nextId' = r.nextId
    /\ pc' = IF r.alive THEN "receive" ELSE "closed"
    /\ hist' = Append(hist, [frame |-> frame.frame, type |-> frame.type,
                              model |-> frame.model,
                              raised |-> \E i \in 1..Len(r.calls) :
                                            r.calls[i].ret = "raise"])
    /\ mark' = Len(log)
    /\ log' = log \o r.sent
    /\ calls' = r.calls
    /\ pre' = Session
    /\ UNCHANGED <<storeVars, registryVars, importVars, concVars>>

Receiving == pc = "receive" /\ Len(hist) < MaxMsgs

OnStart ==
    /\ Receiving
    /\ \E model_path \in ModelValues, eng \in StartOutcomes :
          Commit(Frame("text", "start", model_path),
                 HandleStart(Session, model_path, eng))

OnStop ==
    /\ Receiving
    /\ \E eng \in FinalOutcomes :
          Commit(Frame("text", "stop", "None"), HandleStop(Session, eng))

OnPing ==
    /\ Receiving
    /\ Commit(Frame("text", "ping", "None"), HandlePing(Session))

OnUnknown ==
    /\ Receiving
    /\ \E t \in UnknownTypes :
          Commit(Frame("text", t, "None"), HandleUnknown(Session))

OnMalformed ==
    /\ Receiving
    /\ \E t \in MalformedTexts :
          Commit(Frame("text", t, "None"), HandleMalformed(Session))

OnBytes ==
    /\ Receiving
    /\ \E eng \in FeedOutcomes :
          Commit(Frame("bytes", "None", "None"), HandleBytes(Session, eng))

OnDisconnect ==
    /\ Receiving
    /\ Commit(Frame("disconnect", "None", "None"), HandleDisconnect(Session))

SessionInit ==
    /\ recognizer = NoRecognizer
    /\ audio_chunks_received = 0
    /\ loaded_models = {}
    /\ pc = "receive"
    /\ nextId = 0
    /\ hist = <<>>
    /\ log = <<>>
    /\ mark = 0
    /\ calls = <<>>
    /\ pre = [recognizer |-> NoRecognizer, audio_chunks_received |-> 0,
              loaded_models |-> {}, nextId |-> 0]

Init == SessionInit /\ StoreIdle /\ RegistryIdle /\ ImportIdle /\ ConcIdle

Next ==
    \/ OnStart
    \/ OnStop
    \/ OnPing
    \/ OnUnknown
    \/ OnMalformed
    \/ OnBytes
    \/ OnDisconnect

Spec == Init /\ [][Next]_vars

\* ------------------------------------------------------------ observations
\* The last frame handled, the events sent for it, and what happened in it.
Handled == Len(hist) > 0
last == hist[Len(hist)]
out == SubSeq(log, mark + 1, Len(log))
Types(events) == [i \in 1..Len(events) |-> events[i].type]
Ops == [i \in 1..Len(calls) |-> calls[i].op]
Raised == \E i \in 1..Len(calls) : calls[i].ret = "raise"
Called(op) == \E i \in 1..Len(calls) : calls[i].op = op
Unchanged ==
    /\ recognizer = pre.recognizer
    /\ audio_chunks_received = pre.audio_chunks_received

TypeOK ==
    /\ pc \in {"receive", "closed"}
    /\ audio_chunks_received \in 0..MaxMsgs
    /\ nextId \in 0..MaxMsgs
    /\ loaded_models \subseteq ExistingPaths
    /\ Len(hist) <= MaxMsgs
    /\ mark <= Len(log)

\* ================================================================= claims
FeedOps == {"AcceptWaveform", "Result", "PartialResult"}
Attached(st) == st.recognizer # NoRecognizer

\* C1: a text frame that is not valid JSON, is JSON but not an object, or is
\* an object whose type is none of start/stop/ping emits no event, leaves the
\* recognizer and the chunk counter unchanged, and the session keeps reading.
C1_MalformedIgnored ==
    (Handled /\ last.frame = "text"
             /\ last.type \in MalformedTexts \cup UnknownTypes)
    => (out = <<>> /\ Unchanged /\ pc = "receive")

\* C2: whenever an engine call raises while a frame is handled (in start, in
\* feeding a chunk, in the finalize of stop), an error event carrying a
\* message is emitted and the session goes on reading frames.
C2_EngineFailureKeepsSession ==
    (Handled /\ Raised)
    => /\ \E i \in 1..Len(out) :
             out[i].type = "error" /\ "message" \in DOMAIN out[i]
       /\ pc = "receive"

\* C3: every engine feed call is made on the recognizer attached when the
\* frame arrived; a binary frame received with no recognizer attached emits
\* no event, leaves the chunk counter alone, makes no engine call and leaves
\* the session in IDLE and reading.
C3_AudioOnlyToAttached ==
    /\ \A i \in 1..Len(calls) :
          calls[i].op \in FeedOps
          => /\ last.frame = "bytes"
             /\ Attached(pre)
             /\ calls[i].rec = pre.recognizer
    /\ (Handled /\ last.frame = "bytes" /\ ~Attached(pre))
       => /\ out = <<>>
          /\ calls = <<>>
          /\ audio_chunks_received = pre.audio_chunks_received
          /\ recognizer = NoRecognizer
          /\ pc = "receive"

\* A binary frame arrived in IDLE after a successful start and a stop.
C3_Witness ==
    /\ Len(hist) = 3
    /\ hist[1].type = "start" /\ hist[2].type = "stop"
    /\ last.frame = "bytes"
    /\ log[1] = ReadyEvent
    /\ ~Attached(pre)

\* C4: after a stop, in any state, no recognizer is attached and stopped is
\* the last event of the frame; with no recognizer attached before, the
\* events are exactly <<stopped>> and no engine call is made; with one
\* attached, finalize is called exactly once and a final event precedes
\* stopped exactly when the flushed text is non-empty.
C4_StopAlwaysAcknowledged ==
    (Handled /\ last.type = "stop")
    => /\ recognizer = NoRecognizer
       /\ out # <<>> /\ out[Len(out)] = StoppedEvent
       /\ ~Attached(pre) => (out = <<StoppedEvent>> /\ calls = <<>>)
       /\ Attached(pre)
          => /\ Ops = <<"FinalResult">>
             /\ Types(out) = IF Strip(calls[1].text) # <<>>
                             THEN <<"final", "stopped">>
                             ELSE <<"stopped">>

\* C5: a start with no model path, with a path that does not exist, or with
\* an existing path whose load raises emits exactly one error event and
\* leaves the attached recognizer and the chunk counter as they were.
LoadFailed == calls # <<>> /\ calls[1].op = "Model" /\ calls[1].ret = "raise"

C5_RejectedStartNoTransition ==
    (Handled /\ last.type = "start"
             /\ (last.model \in {"None", "empty", "nx"} \/ LoadFailed))
    => /\ Types(out) = <<"error">>
       /\ Unchanged
       /\ pc = "receive"

\* A load failed while a recognizer that had been fed a chunk was attached.
C5_Witness ==
    /\ Handled /\ last.type = "start" /\ LoadFailed
    /\ Attached(pre) /\ pre.audio_chunks_received > 0
    /\ recognizer = pre.recognizer

\* C6: a start whose engine calls all return replaces the recognizer without
\* flushing: no finalize call and no final event, a recognizer created by
\* this start is attached (bound to SAMPLE_RATE, with word output on), the
\* chunk counter is 0 and the only event is ready.
StartSucceeded ==
    Handled /\ last.type = "start" /\ last.model \in ExistingPaths /\ ~Raised

C6_StartReplacesWithoutFlush ==
    StartSucceeded
    => /\ out = <<ReadyEvent>>
       /\ ~Called("FinalResult")
       /\ Attached(Session)
       /\ recognizer.id > pre.nextId
       /\ recognizer # pre.recognizer
       /\ recognizer.model = last.model
       /\ recognizer.rate = SAMPLE_RATE /\ recognizer.words
       /\ audio_chunks_received = 0
       /\ pc = "receive"

\* A start succeeded while a recognizer that had been fed a chunk was attached.
C6_Witness ==
    /\ StartSucceeded
    /\ Attached(pre) /\ pre.audio_chunks_received > 0
    /\ recognizer.id = pre.recognizer.id + 1

\* C7: for the frames start (existing model, engine calls return), one audio
\* chunk, stop on a fresh session, the events are ready, at most one partial
\* or final, at most one final, stopped, and nothing else.
C7_StartChunkStopEvents ==
    (/\ Len(hist) = 3
     /\ hist[1].type = "start" /\ hist[1].model \in ExistingPaths
     /\ ~hist[1].raised
     /\ hist[2].frame = "bytes"
     /\ hist[3].type = "stop")
    => Types(log) \in {<<"ready", "stopped">>,
                       <<"ready", "partial", "stopped">>,
                       <<"ready", "final", "stopped">>,
                       <<"ready", "partial", "final", "stopped">>,
                       <<"ready", "final", "final", "stopped">>}

\* C8: a ping emits exactly one event, pong; the recognizer, the chunk
\* counter and the model cache are unchanged and no engine call is made.
C8_PingOnlyPongs ==
    (Handled /\ last.type = "ping")
    => /\ out = <<PongEvent>>
       /\ Unchanged
       /\ loaded_models = pre.loaded_models
       /\ calls = <<>>
       /\ pc = "receive"

\* A ping arrived while a recognizer that had been fed a chunk was attached.
C8_Witness ==
    /\ Handled /\ last.type = "ping"
    /\ Attached(pre) /\ pre.audio_chunks_received > 0
    /\ out = <<PongEvent>>

\* Every partial or final event sent so far has a non-empty text with no
\* whitespace at either end, and words = the text lower-cased and split.
TranscriptsWellFormed ==
    \A i \in 1..Len(log) :
        log[i].type \in {"partial", "final"}
        => LET t == log[i].text
           IN  /\ t # <<>>
               /\ ~IsSpace(t[1]) /\ ~IsSpace(t[Len(t)])
               /\ log[i].words = Split(Lower(t))

ChunkFed == Handled /\ last.frame = "bytes" /\ Attached(pre)

\* C9 as stated: transcript events are well formed, and a chunk fed in
\* RECOGNIZING emits at most one event, final when the engine signalled an
\* utterance boundary and partial otherwise.
C9_ChunkEmitsFinalOrPartial ==
    /\ TranscriptsWellFormed
    /\ ChunkFed
       => /\ Len(out) <= 1
          /\ Len(out) = 1
             => out[1].type = IF calls[1].ret = "True" THEN "final"
                              ELSE "partial"

\* C9 amended: transcript events are well formed, and a chunk fed in
\* RECOGNIZING emits at most one event: error when an engine call raised,
\* else final when the engine signalled an utterance boundary and partial
\* when it did not, its text being the engine's text stripped.
C9_ChunkEmitsAtMostOne ==
    /\ TranscriptsWellFormed
    /\ ChunkFed
       => /\ Len(out) <= 1
          /\ Raised => Types(out) = <<"error">>
          /\ (~Raised /\ Len(out) = 1)
             => /\ out[1].type = IF calls[1].ret = "True" THEN "final"
                                 ELSE "partial"
                /\ out[1].text = Strip(calls[2].text)

\* A fed chunk produced a final event of two lower-cased words.
C9_Witness ==
    /\ ChunkFed
    /\ Types(out) = <<"final">>
    /\ out[1].text = <<"A", " ", "A">>
    /\ out[1].words = << <<"a">>, <<"a">> >>

\* C10: a disconnect ends the session with no engine call and no event, the
\* recognizer is not detached, nothing is handled after it, and finalize is
\* only ever called for a stop.
C10_DisconnectNoFlush ==
    /\ (Handled /\ last.frame = "disconnect")
       => /\ pc = "closed"
          /\ calls = <<>>
          /\ out = <<>>
          /\ recognizer = pre.recognizer
    /\ \A i \in 1..Len(hist) : hist[i].frame = "disconnect" => i = Len(hist)
    /\ Called("FinalResult") => last.type = "stop"

\* The client disconnected right after a chunk that produced a partial.
C10_Witness ==
    /\ Handled /\ last.frame = "disconnect"
    /\ Attached(pre) /\ pre.audio_chunks_received > 0
    /\ log # <<>> /\ log[Len(log)].type = "partial"
    /\ pc = "closed"

\* =========================================================== script store
\* Codes the random source of generate_code yields: CODE_LENGTH characters of
\* string.ascii_lowercase + string.digits.
Codes ==
    {<<"a", "a", "a", "a", "a">>,
     <<"a", "1", "a", "1", "a">>}

\* ScriptData bodies.
Datas ==
    {[script |-> "one", language |-> "", fontSize |-> 48, scrollMargin |-> 30],
     [script |-> "two", language |-> "en", fontSize |-> 32, scrollMargin |-> 10]}

\* datetime.utcnow().isoformat() + "Z" at instant t.  The ISO text names the
\* instant; the store only copies it, so it is kept as the instant.
Timestamp(t) == t

\* (SCRIPTS_DIR / f"{code}.json").exists()
Exists(files, code) == code \in DOMAIN files

\* save_script: `created` of the record written.
SavedCreated_Now(files, code, t) == Timestamp(t)
SavedCreated(files, code, t) ==
    IF Exists(files, code) THEN files[code].created ELSE Timestamp(t)

\* save_script(code, data) at instant t: the files afterwards.
save_script(files, code, data, t) ==
    (code :> [script |-> data.script,
              language |-> data.language,
              fontSize |-> data.fontSize,
              scrollMargin |-> data.scrollMargin,
              created |-> SavedCreated(files, code, t),
              accessed |-> Timestamp(t)]) @@ files

\* load_script returns None.
None == [none |-> TRUE]

\* load_script: the record written back and returned.
Accessed_Clobber(data, t) ==
    [data EXCEPT !.accessed = Timestamp(t), !.script = ""]
Accessed(data, t) == [data EXCEPT !.accessed = Timestamp(t)]

\* load_script(code) at instant t: the files afterwards and the value returned.
load_script(files, code, t) ==
    IF ~Exists(files, code)
    THEN [files |-> files, data |-> None]
    ELSE LET data == Accessed(files[code], t)
         IN  [files |-> (code :> data) @@ files, data |-> data]

\* generate_code: a drawn code is returned when it has no backing file.
CodeFree_Any(files, code) == TRUE
CodeFree(files, code) == ~Exists(files, code)

\* ------------------------------------------------- GET /api/scripts/{code}
\* Characters of a requested code: a lower-case letter, an upper-case letter,
\* a digit, a blank and a character that is not alphanumeric.
AlnumChars == {"a", "A", "1"}

\* s[:n]
Truncate(s, n) == SubSeq(s, 1, IF Len(s) < n THEN Len(s) ELSE n)

\* str.isalnum(): non-empty and every character alphanumeric.
IsAlnum(s) == s # <<>> /\ \A i \in 1..Len(s) : s[i] \in AlnumChars

\* code.lower().strip()[:CODE_LENGTH]
NormalizeCode_TruncateFirst(raw) == Strip(Truncate(Lower(raw), CODE_LENGTH))
NormalizeCode(raw) == Truncate(Strip(Lower(raw)), CODE_LENGTH)

\* Requested codes: optional leading blank, a body, a trailer.
CodeBodies ==
    Codes \cup {<<>>,
                <<"A", "A", "A", "A", "A">>,
                <<"a", "a", "a", "a">>,
                <<"a", "a", " ", "a", "a">>,
                <<"a", "-", "a", "1", "a">>}

RawCodes ==
    {lead \o body \o trail :
        lead \in {<<>>, <<" ">>},
        body \in CodeBodies,
        trail \in {<<>>, <<" ">>, <<"a">>}}

\* api_load_script(code): status, body and the files afterwards.
api_load_script(files, raw, t) ==
    LET code == NormalizeCode(raw)
        r == load_script(files, code, t)
    IN  IF ~IsAlnum(code)
        THEN [status |-> 400, data |-> None, files |-> files]
        ELSE IF r.data = None
        THEN [status |-> 404, data |-> None, files |-> r.files]
        ELSE [status |-> 200, data |-> r.data, files |-> r.files]

\* ---------------------------------------------------------- store actions
Requests == 1..MaxPosts

\* The last operation: what was called, on what, the files before it, the
\* instant, and what it returned; n counts the operations so far.
Op(op, code, data, ret, status) ==
    [op |-> op, code |-> code, data |-> data, ret |-> ret, status |-> status,
     pre |-> scripts, at |-> now, n |-> store_last.n + 1]

\* First save instant and latest saved data of a code.
Remember(code, data) ==
    (code :> [first |-> IF code \in DOMAIN saved THEN saved[code].first
                        ELSE Timestamp(now),
              data |-> data]) @@ saved

\* The event loop is free, or held by coroutine r.
LoopFree == running = 0
MayRun(r) == running \in {0, r}
MoreOps == store_last.n < MaxStoreOps
MoreRequests == store_last.n < MaxApiOps
StoreOnly == UNCHANGED <<sessionVars, registryVars, importVars, concVars>>

\* The clock moves on between operations; it does not go back.
Tick ==
    /\ LoopFree
    /\ now < MaxClock
    /\ now' = now + 1
    /\ UNCHANGED <<scripts, saved, store_last, posts, running>>
    /\ StoreOnly

\* A call save_script(code, data).
SaveScript ==
    /\ LoopFree /\ MoreOps
    /\ \E code \in Codes, data \in Datas :
          /\ scripts' = save_script(scripts, code, data, now)
          /\ saved' = Remember(code, data)
          /\ store_last' = Op("save_script", code, data, None, 0)
    /\ UNCHANGED <<now, posts, running>>
    /\ StoreOnly

\* A call load_script(code).
LoadScript ==
    /\ LoopFree /\ MoreOps
    /\ \E code \in Codes :
          LET r == load_script(scripts, code, now)
          IN  /\ scripts' = r.files
              /\ store_last' = Op("load_script", code, None, r.data, 0)
    /\ UNCHANGED <<now, saved, posts, running>>
    /\ StoreOnly

\* GET /api/scripts/{code}: the handler has no await, it runs to the end.
ApiLoadScript ==
    /\ LoopFree /\ MoreRequests
    /\ \E raw \in RawCodes :
          LET r == api_load_script(scripts, raw, now)
          IN  /\ scripts' = r.files
              /\ store_last' = Op("GET", raw, None, r.data, r.status)
    /\ UNCHANGED <<now, saved, posts, running>>
    /\ StoreOnly

\* POST /api/scripts.  Between generate_code() and save_script() the handler
\* has no await: the coroutine keeps the event loop.
PostYields_Await == TRUE
PostYields == FALSE

\* api_save_script up to the return of generate_code().
PostGenerate(r) ==
    /\ MayRun(r) /\ MoreRequests
    /\ posts[r].pc = "new"
    /\ \E code \in Codes, data \in Datas :
          /\ CodeFree(scripts, code)
          /\ posts' = [posts EXCEPT ![r] =
                          [pc |-> "generated", code |-> code, data |-> data,
                           fresh |-> ~Exists(scripts, code)]]
    /\ running' = IF PostYields THEN 0 ELSE r
    /\ UNCHANGED <<scripts, now, saved, store_last>>
    /\ StoreOnly

\* api_save_script from save_script(code, data) to the response {"code": code}.
PostSave(r) ==
    /\ MayRun(r)
    /\ posts[r].pc = "generated"
    /\ LET code == posts[r].code
           data == posts[r].data
       IN  /\ scripts' = save_script(scripts, code, data, now)
           /\ saved' = Remember(code, data)
           /\ store_last' = Op("POST", code, data, None, 200)
           /\ posts' = [posts EXCEPT ![r] =
                           [@ EXCEPT !.pc = "done",
                                     !.fresh = @ /\ ~Exists(scripts, code)]]
    /\ running' = 0
    /\ UNCHANGED now
    /\ StoreOnly

StoreInit ==
    /\ scripts = NoFiles
    /\ now = 0
    /\ saved = NoFiles
    /\ store_last = [op |-> "none", n |-> 0]
    /\ posts = [r \in Requests |->
                   [pc |-> "new", code |-> <<>>, data |-> None, fresh |-> TRUE]]
    /\ running = 0

InitStore == SessionInit /\ StoreInit /\ RegistryIdle /\ ImportIdle /\ ConcIdle

\* The store's functions called directly, in any order.
NextStore ==
    \/ Tick
    \/ SaveScript
    \/ LoadScript

SpecStore == InitStore /\ [][NextStore]_vars

\* The store as the HTTP API drives it.
NextApi ==
    \/ Tick
    \/ ApiLoadScript
    \/ \E r \in Requests : PostGenerate(r)
    \/ \E r \in Requests : PostSave(r)

SpecApi == InitStore /\ [][NextApi]_vars

\* ----------------------------------------------------- claims on the store
Stored(op) == store_last.op = op
Found == store_last.ret # None

\* C11: the stored record's created is the instant of the first save_script
\* on its code; every save_script and every successful load_script sets
\* accessed to the current instant, so accessed never decreases and is never
\* before created.
C11_CreatedImmutable ==
    /\ \A code \in DOMAIN scripts :
          /\ scripts[code].created = saved[code].first
          /\ scripts[code].accessed >= scripts[code].created
    /\ (Stored("save_script") \/ (Stored("load_script") /\ Found))
       => LET code == store_last.code
          IN  /\ scripts[code].accessed = Timestamp(store_last.at)
              /\ Exists(store_last.pre, code)
                 => scripts[code].accessed >= store_last.pre[code].accessed

\* A second save_script on a code, later than the first and with other data.
C11_Witness ==
    /\ Stored("save_script")
    /\ Exists(store_last.pre, store_last.code)
    /\ store_last.pre[store_last.code].script # store_last.data.script
    /\ scripts[store_last.code].created < scripts[store_last.code].accessed
    /\ scripts[store_last.code].created = 0

\* C12: load_script on a code with no file returns None and creates no file;
\* otherwise it returns the script, language, fontSize and scrollMargin of the
\* latest save_script on the code, and rewrites nothing but accessed.
C12_SaveLoadRoundTrip ==
    Stored("load_script")
    => LET code == store_last.code
           before == store_last.pre
           ret == store_last.ret
       IN  IF ~Exists(before, code)
           THEN ret = None /\ scripts = before
           ELSE /\ ret.script = saved[code].data.script
                /\ ret.language = saved[code].data.language
                /\ ret.fontSize = saved[code].data.fontSize
                /\ ret.scrollMargin = saved[code].data.scrollMargin
                /\ scripts[code] = ret
                /\ scripts =
                      (code :> [before[code] EXCEPT
                                   !.accessed = Timestamp(store_last.at)])
                      @@ before

\* A load_script that follows a save_script and an earlier load_script, each
\* at a later instant.
C12_Witness ==
    /\ Stored("load_script") /\ Found
    /\ store_last.n = 3
    /\ LET rec == store_last.pre[store_last.code]
       IN  rec.created < rec.accessed /\ rec.accessed < store_last.at

\* C13: GET lower-cases, trims and truncates the code to CODE_LENGTH; a
\* result that is empty or not purely alphanumeric gives 400 and the files
\* are untouched; an alphanumeric one with no file gives 404 and no file is
\* created; with a file, the record is returned with accessed rewritten.
C13_GetMalformedOrMissing ==
    Stored("GET")
    => LET code == Truncate(Strip(Lower(store_last.code)), CODE_LENGTH)
           before == store_last.pre
           alnum == code # <<>> /\ \A i \in 1..Len(code) : code[i] \in AlnumChars
       IN  IF ~alnum
           THEN store_last.status = 400 /\ scripts = before
           ELSE IF ~Exists(before, code)
           THEN store_last.status = 404 /\ scripts = before
           ELSE /\ store_last.status = 200
                /\ store_last.ret =
                      [before[code] EXCEPT !.accessed = Timestamp(store_last.at)]
                /\ scripts = (code :> store_last.ret) @@ before

\* A GET whose code needed lower-casing, trimming and truncating found a
\* record and rewrote its accessed.
C13_Witness ==
    /\ Stored("GET") /\ store_last.status = 200
    /\ Len(store_last.code) = 7
    /\ store_last.code[1] = " " /\ store_last.code[2] = "A"
    /\ store_last.ret.accessed > store_last.ret.created

\* C17: every POST writes to a code that had no file when generate_code
\* chose it and still has none when save_script writes it; no two POSTs
\* return the same code and no POST overwrites an existing record.
C17_CodesUnique ==
    /\ \A r \in Requests : posts[r].pc = "done" => posts[r].fresh
    /\ \A r1, r2 \in Requests :
          (r1 # r2 /\ posts[r1].pc = "done" /\ posts[r2].pc = "done")
          => posts[r1].code # posts[r2].code
    /\ Stored("POST") => ~Exists(store_last.pre, store_last.code)

\* Two pending POSTs both finished, each with its own code.
C17_Witness ==
    /\ \A r \in {1, 2} : posts[r].pc = "done"
    /\ posts[1].code # posts[2].code
    /\ DOMAIN scripts = {posts[1].code, posts[2].code}

\* ========================================================= model registry
\* Names are sequences of one-character strings.
VoskModelToken == <<"v", "o", "s", "k", "-", "m", "o", "d", "e", "l", "-">>
SmallToken == <<"s", "m", "a", "l", "l", "-">>
BigToken == <<"b", "i", "g", "-">>
Unknown == <<"u", "n", "k", "n", "o", "w", "n">>

\* str.replace(old, ""): every occurrence of old, left to right, is dropped.
RECURSIVE Remove(_, _)
Remove(s, old) ==
    IF Len(s) < Len(old) THEN s
    ELSE IF SubSeq(s, 1, Len(old)) = old
         THEN Remove(SubSeq(s, Len(old) + 1, Len(s)), old)
         ELSE <<Head(s)>> \o Remove(Tail(s), old)

\* str.split(sep) with a separator: empty pieces are kept, and the empty
\* string splits into one empty piece.
RECURSIVE SplitOnFrom(_, _, _, _)
SplitOnFrom(s, sep, cur, acc) ==
    IF s = <<>> THEN Append(acc, cur)
    ELSE IF Head(s) = sep
         THEN SplitOnFrom(Tail(s), sep, <<>>, Append(acc, cur))
         ELSE SplitOnFrom(Tail(s), sep, Append(cur, Head(s)), acc)

SplitOn(s, sep) == SplitOnFrom(s, sep, <<>>, <<>>)

\* name.replace("vosk-model-", "").replace("small-", "").replace("big-", "")
StripTokens(name) == Remove(Remove(Remove(name, VoskModelToken), SmallToken), BigToken)

\* The language code get_available_models derives from a directory name.
LanguageCode(name) ==
    LET parts == SplitOn(StripTokens(name), "-")
    IN  IF Len(parts) >= 2
        THEN IF Len(parts[2]) = 2
             THEN parts[1] \o <<"-">> \o parts[2]
             ELSE parts[1]
        ELSE IF parts # <<>> THEN parts[1] ELSE Unknown

\* Directory names: prefix tokens followed by dash-separated tokens.
PrefixTokens == {VoskModelToken, SmallToken, BigToken}
NameTokens ==
    {<<"e", "n">>,
     <<"u", "s">>,
     <<"f", "r">>,
     <<"0", ".", "1", "5">>,
     <<"0", ".", "6">>}

RECURSIVE Concat(_)
Concat(ss) == IF ss = <<>> THEN <<>> ELSE Head(ss) \o Concat(Tail(ss))

RECURSIVE JoinWith(_, _)
JoinWith(ss, sep) ==
    IF ss = <<>> THEN <<>>
    ELSE IF Len(ss) = 1 THEN ss[1]
    ELSE ss[1] \o sep \o JoinWith(Tail(ss), sep)

\* A directory entry has a non-empty name.
ModelNames ==
    {Concat(ps) \o JoinWith(ts, <<"-">>) :
        ps \in UNION {[1..n -> PrefixTokens] : n \in 0..MaxPrefixes},
        ts \in UNION {[1..n -> NameTokens] : n \in 0..MaxTokens}} \ {<<>>}

\* get_available_models for one entry of MODELS_DIR: it is listed when it is
\* a directory holding am/final.mdl.
get_available_models(dir) ==
    IF dir.is_model
    THEN <<[name |-> dir.name, language |-> LanguageCode(dir.name)]>>
    ELSE <<>>

GetAvailableModels ==
    /\ models = NoOp
    /\ models' = [models |-> get_available_models(model_dir)]
    /\ UNCHANGED <<model_dir, sessionVars, storeVars, importVars, concVars>>

RegistryInit ==
    /\ model_dir \in [name : ModelNames, is_model : BOOLEAN]
    /\ models = NoOp

InitRegistry == SessionInit /\ StoreIdle /\ RegistryInit /\ ImportIdle /\ ConcIdle

NextRegistry ==
    \/ GetAvailableModels

SpecRegistry == InitRegistry /\ [][NextRegistry]_vars

\* -------------------------------------------------- claims on the registry
Listed == models # NoOp /\ models.models # <<>>

\* C14: with the tokens vosk-model-, small-, big- removed and the rest split
\* on "-", the language is token0-token1 when a second token exists and has
\* exactly 2 characters, otherwise token0; a name that leaves nothing yields
\* "unknown"; vosk-model-small-en-us-0.15 gives en-us, vosk-model-fr-0.6 fr.
C14_LanguageCode ==
    Listed
    => LET rest == StripTokens(model_dir.name)
           parts == SplitOn(rest, "-")
           language == models.models[1].language
       IN  /\ language =
                 IF rest = <<>> THEN Unknown
                 ELSE IF Len(parts) >= 2 /\ Len(parts[2]) = 2
                 THEN parts[1] \o <<"-">> \o parts[2]
                 ELSE parts[1]
           /\ model_dir.name = <<"v", "o", "s", "k", "-", "m", "o", "d", "e", "l", "-", "s", "m", "a", "l", "l", "-", "e", "n", "-", "u", "s", "-", "0", ".", "1", "5">>
              => language = <<"e", "n", "-", "u", "s">>
           /\ model_dir.name = <<"v", "o", "s", "k", "-", "m", "o", "d", "e", "l", "-", "f", "r", "-", "0", ".", "6">>
              => language = <<"f", "r">>

\* =========================================================== PPTX import
\* The transition cue and the paragraph separator "\n\n".
NextSlide == <<"[", "n", "e", "x", "t", " ", "s", "l", "i", "d", "e", "]">>
BlankLine == <<"\n", "\n">>
PptxSuffix == <<".", "p", "p", "t", "x">>

\* str.endswith(suffix)
EndsWith(s, suffix) ==
    /\ Len(s) >= Len(suffix)
    /\ SubSeq(s, Len(s) - Len(suffix) + 1, Len(s)) = suffix

Filenames ==
    {<<"a", ".", "p", "p", "t", "x">>,
     <<"A", ".", "P", "P", "T", "X">>,
     <<"a", ".", "p", "p", "t">>,
     <<"p", "p", "t", "x">>}

\* A slide without a notes slide, or one with the text of its notes frame.
NoteTexts == {<<>>, <<" ">>, <<"A">>, <<"C">>, <<" ", "A", " ">>}
SlideValues ==
    {[has_notes_slide |-> FALSE, text |-> <<>>]}
        \cup [has_notes_slide : {TRUE}, text : NoteTexts]
Presentations == UNION {[1..n -> SlideValues] : n \in 0..MaxSlides}

\* An upload whose bytes Presentation() rejects has no slides to speak of.
Uploads ==
    [filename : Filenames, parses : {TRUE}, slides : Presentations]
        \cup [filename : Filenames, parses : {FALSE}, slides : {<<>>}]

\* if i < len(prs.slides) - 1, with slides numbered from 1 here.
NotLast_Always(i, n) == TRUE
NotLast(i, n) == i < n

\* One pass of the loop body for slide i: its notes, then the cue.
SlideParts(slides, i) ==
    LET notes_text == Strip(slides[i].text)
    IN  (IF slides[i].has_notes_slide /\ notes_text # <<>>
         THEN <<notes_text>> ELSE <<>>)
        \o (IF NotLast(i, Len(slides)) THEN <<NextSlide>> ELSE <<>>)

RECURSIVE ExtractParts(_, _, _)
ExtractParts(slides, i, parts) ==
    IF i > Len(slides) THEN parts
    ELSE ExtractParts(slides, i + 1, parts \o SlideParts(slides, i))

\* The handler: 400 for a wrong suffix, 400 for a parse failure, otherwise
\* the script and the slide count (parts is kept to observe the paragraphs).
api_import_pptx(file) ==
    IF ~EndsWith(Lower(file.filename), PptxSuffix)
    THEN [status |-> 400, detail |-> "type"]
    ELSE IF ~file.parses
    THEN [status |-> 400, detail |-> "parse"]
    ELSE LET parts == ExtractParts(file.slides, 1, <<>>)
         IN  [status |-> 200,
              parts |-> parts,
              script |-> JoinWith(parts, BlankLine),
              slideCount |-> Len(file.slides)]

ApiImportPptx ==
    /\ import_response = NoOp
    /\ import_response' = api_import_pptx(upload)
    /\ UNCHANGED <<upload, sessionVars, storeVars, registryVars, concVars>>

ImportInit ==
    /\ upload \in Uploads
    /\ import_response = NoOp

InitImport == SessionInit /\ StoreIdle /\ RegistryIdle /\ ImportInit /\ ConcIdle

NextImport ==
    \/ ApiImportPptx

SpecImport == InitImport /\ [][NextImport]_vars

\* ---------------------------------------------------- claims on the import
Imported == import_response # NoOp /\ import_response.status = 200

\* The trimmed, non-empty notes of the slides, in slide order.
HasNotes(slide) == slide.has_notes_slide /\ Strip(slide.text) # <<>>
NotesOf(slides) ==
    LET kept == SelectSeq(slides, HasNotes)
    IN  [k \in 1..Len(kept) |-> Strip(kept[k].text)]

IsMarker(part) == part = NextSlide
IsNotes(part) == part # NextSlide
NotesUpTo(slides, i) == Len(SelectSeq(SubSeq(slides, 1, i), HasNotes))

\* The paragraph structure of a successful import, with the number of
\* markers a document of n slides is expected to give.
ParagraphStructure(markers) ==
    LET slides == upload.slides
        n == Len(slides)
        parts == import_response.parts
    IN  /\ Len(SelectSeq(parts, IsMarker)) = markers
        /\ SelectSeq(parts, IsNotes) = NotesOf(slides)
        /\ \A i \in 1..(n - 1) : parts[i + NotesUpTo(slides, i)] = NextSlide
        /\ parts # <<>> /\ HasNotes(slides[n]) => parts[Len(parts)] # NextSlide
        /\ parts # <<>> /\ ~HasNotes(slides[n]) /\ n > 1
             => Len(parts) = (n - 1) + NotesUpTo(slides, n - 1)
        /\ import_response.script = JoinWith(parts, BlankLine)
        /\ import_response.slideCount = n

ThreeSlides ==
    <<[has_notes_slide |-> TRUE, text |-> <<"A">>],
      [has_notes_slide |-> TRUE, text |-> <<>>],
      [has_notes_slide |-> TRUE, text |-> <<"C">>]>>

ThreeSlidesParts == <<<<"A">>, NextSlide, NextSlide, <<"C">>>>

\* C15 as stated: for a document of n slides the paragraphs are, in slide
\* order, the trimmed non-empty notes of each slide followed by the marker
\* unless the slide is the last; exactly n-1 markers; the script is the
\* paragraphs joined by a blank line; slideCount = n.
C15_ParagraphsWithNMinusOneMarkers ==
    Imported => ParagraphStructure(Len(upload.slides) - 1)

\* C15, amended: the same structure, with n-1 markers for n >= 1 slides and
\* none for a presentation without slides; slides with notes A, empty, C
\* give A, marker, marker, C.
C15_ParagraphStructure ==
    Imported
    => /\ ParagraphStructure(IF upload.slides = <<>> THEN 0
                             ELSE Len(upload.slides) - 1)
       /\ upload.slides = ThreeSlides
            => /\ import_response.parts = ThreeSlidesParts
               /\ import_response.script =
                      <<"A">> \o BlankLine \o NextSlide \o BlankLine
                          \o NextSlide \o BlankLine \o <<"C">>
               /\ import_response.slideCount = 3

C15_Witness ==
    /\ Imported
    /\ upload.slides = ThreeSlides
    /\ import_response.parts = ThreeSlidesParts

\* =================================================== concurrent sessions
\* Every connection runs websocket_endpoint as a coroutine of one event loop:
\* a coroutine runs from one await to the next without interruption.
ConcSessions == 1..MaxSessions

singleVars == <<recognizer, audio_chunks_received, pc, hist, log, mark, calls, pre>>
scriptVars == <<scripts, now, saved, store_last, posts>>
ConcOnly == UNCHANGED <<singleVars, scriptVars, registryVars, importVars>>

\* What the connections are driven with: Model() returns or raises and the
\* recognizer's set-up returns; a chunk makes AcceptWaveform raise or gives a
\* text; the frames are start, audio, stop and the client's disconnect.
ConcTexts == {<<>>, <<"A">>}
ConcStartOutcomes == {"ok", "Model"}
ConcFeedOutcomes ==
    {eng \in FeedOutcomes : eng.text \in ConcTexts /\ eng.res # "raise"}
ConcFinalOutcomes == {eng \in FinalOutcomes : eng.text \in ConcTexts}
ConcFrames ==
    {Frame("text", "start", model_path) : model_path \in ExistingPaths}
        \cup {Frame("bytes", "None", "None"),
              Frame("text", "stop", "None"),
              Frame("disconnect", "None", "None")}

FrameName(frame) == IF frame.frame = "text" THEN frame.type ELSE frame.frame

\* The coroutine after websocket.accept(): its locals, the number of frames
\* it has read, the path it is loading, the events it has still to send and
\* whether its loop goes on after them.
NewSession ==
    [pc |-> "receive", recognizer |-> NoRecognizer, audio_chunks_received |-> 0,
     frame |-> 0, model_path |-> "", pending |-> <<>>, alive |-> TRUE]

\* The session variables as a handler sees them.
Local(s) ==
    [recognizer |-> sessions[s].recognizer,
     audio_chunks_received |-> sessions[s].audio_chunks_received,
     loaded_models |-> loaded_models, nextId |-> nextId]

\* The frame `await websocket.receive()` returns next, if any.
Unread(s) == sessions[s].frame < Len(inbox[s])
NextFrame(s) == inbox[s][sessions[s].frame + 1]
ClientGone(s) ==
    inbox[s] # <<>> /\ inbox[s][Len(inbox[s])].frame = "disconnect"

\* The loop is back at `await websocket.receive()` only when the handler of
\* the previous frame has returned.
CanReceive_Eager(ss) == ss.pc \in {"receive", "send"}
CanReceive(ss) == ss.pc = "receive"

\* Model(model_path) is a plain call inside get_model: the coroutine does not
\* give up the event loop while the engine loads.
LoadYields_Executor == TRUE
LoadYields == FALSE

\* `if model_path not in loaded_models` of a start that reaches get_model.
Loads(model_path) ==
    /\ ~Falsy(model_path)
    /\ model_path # "nonstring"
    /\ PathExists(model_path)
    /\ model_path \notin loaded_models

Tag(events, k) == [i \in 1..Len(events) |-> [event |-> events[i], frame |-> k]]
ReadEntry(k, frame) ==
    [kind |-> "read", frame |-> k, what |-> FrameName(frame), ret |-> frame.model]
CallEntries(made, k) ==
    [i \in 1..Len(made) |->
        [kind |-> "call", frame |-> k, what |-> made[i].op, ret |-> made[i].ret]]
SendEntry(tagged) ==
    [kind |-> "send", frame |-> tagged.frame, what |-> tagged.event.type, ret |-> "sent"]

IsModelCall(call) == call.op = "Model"

\* Where the coroutine is once a handler has run up to its sends.
After(pending, alive) ==
    IF pending # <<>> THEN "send" ELSE IF alive THEN "receive" ELSE "closed"

\* The handler of frame k of session s has run with outcome r: its engine
\* calls are made, its events are queued for sending.
Handle(s, k, read, model_path, r) ==
    LET ss == sessions[s]
        pending == ss.pending \o Tag(r.sent, k)
        made == SelectSeq(r.calls, IsModelCall)
    IN  /\ sessions' = [sessions EXCEPT ![s] =
               [pc |-> After(pending, r.alive),
                recognizer |-> r.recognizer,
                audio_chunks_received |-> r.audio_chunks_received,
                frame |-> k, model_path |-> "",
                pending |-> pending, alive |-> r.alive]]
        /\ loaded_models' = r.loaded_models
        /\ nextId' = r.nextId
        /\ trace' = [trace EXCEPT ![s] = @ \o read \o CallEntries(r.calls, k)]
        /\ model_calls' =
               IF made = <<>> THEN model_calls
               ELSE [model_calls EXCEPT ![model_path] =
                        Append(@, [session |-> s, ret |-> made[1].ret])]
        /\ UNCHANGED inbox
        /\ ConcOnly

Reading(s, name) ==
    /\ LoopFree
    /\ CanReceive(sessions[s])
    /\ Unread(s)
    /\ FrameName(NextFrame(s)) = name

\* The frames the clients of connections 1..n have sent.
RECURSIVE FramesSent(_)
FramesSent(n) == IF n = 0 THEN 0 ELSE Len(inbox[n]) + FramesSent(n - 1)

\* The client of a connection sends one more frame; after a disconnect it
\* sends nothing, and nothing is sent to a coroutine that has ended.
Arrive ==
    \E s \in ConcSessions, frame \in ConcFrames :
        LET total == FramesSent(MaxSessions)
        IN  /\ total < MaxFrames
            /\ ~ClientGone(s)
            /\ sessions[s].pc # "closed"
            /\ inbox' = [inbox EXCEPT ![s] = Append(@, frame)]
            /\ UNCHANGED <<sessions, trace, loading, model_calls,
                           loaded_models, nextId, running>>
            /\ ConcOnly

\* A start frame: on a cache miss get_model begins Model(model_path),
\* otherwise the handler runs to its send.
ReceiveStart ==
    \E s \in ConcSessions :
        /\ Reading(s, "start")
        /\ LET k == sessions[s].frame + 1
               model_path == NextFrame(s).model
           IN  IF Loads(model_path)
               THEN /\ sessions' = [sessions EXCEPT ![s].pc = "load",
                                                    ![s].frame = k,
                                                    ![s].model_path = model_path]
                    /\ loading' = loading \cup {<<s, model_path>>}
                    /\ running' = IF LoadYields THEN 0 ELSE s
                    /\ trace' = [trace EXCEPT ![s] =
                                    Append(@, ReadEntry(k, NextFrame(s)))]
                    /\ UNCHANGED <<inbox, model_calls, loaded_models, nextId>>
                    /\ ConcOnly
               ELSE /\ \E eng \in ConcStartOutcomes :
                          Handle(s, k, <<ReadEntry(k, NextFrame(s))>>, model_path,
                                 HandleStart(Local(s), model_path, eng))
                    /\ UNCHANGED <<loading, running>>

\* Model(model_path) returns or raises, and the start handler runs on.
LoadEnd ==
    \E s \in ConcSessions :
        /\ MayRun(s)
        /\ sessions[s].pc = "load"
        /\ \E eng \in ConcStartOutcomes :
              Handle(s, sessions[s].frame, <<>>, sessions[s].model_path,
                     HandleStart(Local(s), sessions[s].model_path, eng))
        /\ loading' = loading \ {<<s, sessions[s].model_path>>}
        /\ running' = 0

ReceiveStop ==
    \E s \in ConcSessions :
        /\ Reading(s, "stop")
        /\ \E eng \in ConcFinalOutcomes :
              Handle(s, sessions[s].frame + 1,
                     <<ReadEntry(sessions[s].frame + 1, NextFrame(s))>>, "",
                     HandleStop(Local(s), eng))
        /\ UNCHANGED <<loading, running>>

ReceiveBytes ==
    \E s \in ConcSessions :
        /\ Reading(s, "bytes")
        /\ \E eng \in ConcFeedOutcomes :
              Handle(s, sessions[s].frame + 1,
                     <<ReadEntry(sessions[s].frame + 1, NextFrame(s))>>, "",
                     HandleBytes(Local(s), eng))
        /\ UNCHANGED <<loading, running>>

ReceiveDisconnect ==
    \E s \in ConcSessions :
        /\ Reading(s, "disconnect")
        /\ Handle(s, sessions[s].frame + 1,
                  <<ReadEntry(sessions[s].frame + 1, NextFrame(s))>>, "",
                  HandleDisconnect(Local(s)))
        /\ UNCHANGED <<loading, running>>

\* `await websocket.send_text(...)` of the next queued event.
Send ==
    \E s \in ConcSessions :
        LET ss == sessions[s]
        IN  /\ LoopFree
            /\ ss.pc = "send"
            /\ sessions' = [sessions EXCEPT
                   ![s].pending = Tail(ss.pending),
                   ![s].pc = After(Tail(ss.pending), ss.alive)]
            /\ trace' = [trace EXCEPT ![s] = Append(@, SendEntry(Head(ss.pending)))]
            /\ UNCHANGED <<inbox, loading, model_calls, loaded_models, nextId, running>>
            /\ ConcOnly

\* send_text raises because the client has gone: the exception leaves the
\* loop, the error send of `except Exception` fails too and is swallowed.
SendFails ==
    \E s \in ConcSessions :
        /\ LoopFree
        /\ sessions[s].pc = "send"
        /\ ClientGone(s)
        /\ sessions' = [sessions EXCEPT ![s].pending = <<>>,
                                        ![s].alive = FALSE,
                                        ![s].pc = "closed"]
        /\ UNCHANGED <<inbox, trace, loading, model_calls, loaded_models,
                       nextId, running>>
        /\ ConcOnly

ConcInit ==
    /\ sessions = [s \in ConcSessions |-> NewSession]
    /\ inbox = [s \in ConcSessions |-> <<>>]
    /\ trace = [s \in ConcSessions |-> <<>>]
    /\ loading = {}
    /\ model_calls = [model_path \in ExistingPaths |-> <<>>]

InitConc == SessionInit /\ StoreIdle /\ RegistryIdle /\ ImportIdle /\ ConcInit

NextConc ==
    \/ Arrive
    \/ ReceiveStart
    \/ LoadEnd
    \/ ReceiveStop
    \/ ReceiveBytes
    \/ ReceiveDisconnect
    \/ Send
    \/ SendFails

SpecConc == InitConc /\ [][NextConc]_vars

\* ------------------------------------------ claims on concurrent sessions
Loaders(model_path) == {s \in ConcSessions : <<s, model_path>> \in loading}
Rets(made) == [i \in 1..Len(made) |-> made[i].ret]
Succeeded(model_path) ==
    \E i \in 1..Len(model_calls[model_path]) : model_calls[model_path][i].ret = "ok"

\* C16: under any interleaving of the connections' start frames, two loads
\* of one model path are never in flight together, no load is in flight for
\* a path that is cached, and no Model() call on a path follows a successful
\* one: a later start reuses the cached handle.
C16_SingleFlight ==
    \A model_path \in ExistingPaths :
        /\ Cardinality(Loaders(model_path)) <= 1
        /\ Loaders(model_path) # {} => model_path \notin loaded_models
        /\ \A i \in 1..Len(model_calls[model_path]) :
              model_calls[model_path][i].ret = "ok"
              => i = Len(model_calls[model_path])

\* A load of m1 has raised; connection 1 is loading m1 again while a start
\* of connection 2 on the same path waits to be read.
C16_Witness ==
    /\ Rets(model_calls["m1"]) = <<"raise">>
    /\ Loaders("m1") = {1}
    /\ Unread(2)
    /\ NextFrame(2) = Frame("text", "start", "m1")

\* The order of a trace entry inside the handling of its frame.
Rank(kind) == CASE kind = "read" -> 0 [] kind = "call" -> 1 [] kind = "send" -> 2

\* C18: for each connection the frames are read in arrival order, and every
\* engine call and every event of a frame comes before the next frame is
\* read: the trace is ordered by frame, inside a frame by read, calls,
\* sends; the events still to send all belong to the frame being handled;
\* feed calls are made for audio frames only.
C18_InOrderOneAtATime ==
    \A s \in ConcSessions :
        LET t == trace[s]
            ss == sessions[s]
        IN  /\ \A i, j \in 1..Len(t) :
                  i < j => /\ t[i].frame <= t[j].frame
                           /\ t[i].frame = t[j].frame
                              => /\ Rank(t[i].kind) <= Rank(t[j].kind)
                                 /\ t[j].kind # "read"
            /\ {t[i].frame : i \in {j \in 1..Len(t) : t[j].kind = "read"}}
                  = 1..ss.frame
            /\ \A i \in 1..Len(t) :
                  /\ t[i].frame \in 1..Len(inbox[s])
                  /\ t[i].kind = "read"
                     => /\ t[i].what = FrameName(inbox[s][t[i].frame])
                        /\ t[i].ret = inbox[s][t[i].frame].model
                  /\ (t[i].kind = "call" /\ t[i].what \in FeedOps)
                     => FrameName(inbox[s][t[i].frame]) = "bytes"
            /\ \A i \in 1..Len(ss.pending) : ss.pending[i].frame = ss.frame
            /\ ss.pc = "receive" => ss.pending = <<>>

Kinds(t) == [i \in 1..Len(t) |-> <<t[i].kind, t[i].frame>>]

\* A connection has handled start, chunk, chunk, each with its event sent
\* before the next frame was read.
C18_Witness ==
    /\ Kinds(trace[1]) =
          <<<<"read", 1>>, <<"call", 1>>, <<"call", 1>>, <<"call", 1>>, <<"send", 1>>,
            <<"read", 2>>, <<"call", 2>>, <<"call", 2>>, <<"send", 2>>,
            <<"read", 3>>, <<"call", 3>>, <<"call", 3>>, <<"send", 3>>>>
    /\ trace[1][9].what = "partial"
    /\ trace[1][13].what = "final"

\* The events sent or still to send for frame k of connection s.
EventsOf(s, k) ==
    LET sent == SelectSeq(trace[s], LAMBDA e : e.kind = "send" /\ e.frame = k)
        todo == SelectSeq(sessions[s].pending, LAMBDA e : e.frame = k)
    IN  [i \in 1..Len(sent) |-> sent[i].what]
            \o [i \in 1..Len(todo) |-> todo[i].event.type]

\* C19: a path is in the cache exactly when a Model() call on it has
\* returned; a call that raised left no entry, its start is answered with an
\* error event and the connection reads on, so that a later start loads
\* again; with at most one successful call per path an entry is never
\* replaced, and it stays when the connection that loaded it fails or
\* disconnects.
C19_CacheOnlyGrowsOnSuccess ==
    /\ \A model_path \in ExistingPaths :
          /\ model_path \in loaded_models <=> Succeeded(model_path)
          /\ Cardinality({i \in 1..Len(model_calls[model_path]) :
                             model_calls[model_path][i].ret = "ok"}) <= 1
    /\ \A s \in ConcSessions : \A i \in 1..Len(trace[s]) :
          LET e == trace[s][i]
          IN  (e.kind = "call" /\ e.what = "Model" /\ e.ret = "raise")
              => /\ sessions[s].pc = "closed" \/ EventsOf(s, e.frame) = <<"error">>
                 /\ sessions[s].alive \/ sessions[s].frame > e.frame
                       \/ ClientGone(s)

\* A load of m1 raised, a later start loaded it, the connection that loaded
\* it then failed on a chunk and ended; the entry is still there.
C19_Witness ==
    /\ Rets(model_calls["m1"]) = <<"raise", "ok">>
    /\ model_calls["m1"][2].session = 1
    /\ sessions[1].pc = "closed"
    /\ ~ClientGone(1)
    /\ "m1" \in loaded_models

====
